---- MODULE Spec2Model ----
(***************************************************************************)
(* Model of taxyman.py: the progressive slab-tax calculator for the two    *)
(* "new regime" schedules (2024-25 and 2025-26), the comparison and the    *)
(* per-lakh bracket sweep done by tax_calculator, and the Gradio handlers  *)
(* that feed it.                                                           *)
(*                                                                         *)
(* Amounts of income are integers (rupees).  Rates are kept in percent and *)
(* every tax amount is kept in hundredths of a rupee (amount * percent),   *)
(* so that amount * rate is exact for every integer amount; Rupees(n) is   *)
(* n rupees in that unit.  (On the incomes drawn here the program's float  *)
(* arithmetic is exact as well.)                                           *)
(***************************************************************************)
EXTENDS Integers, Sequences, FiniteSets

VARIABLES
    income_input,   \* value of the gr.Number field: None or Num(n)
    result,         \* outcome of the last handler wired to the output components
    in1, in2,       \* SpecTax: two incomes handed to the regime functions
    r1, r2          \* SpecTax: what the regime functions returned for them

vars == <<income_input, result, in1, in2, r1, r2>>

-----------------------------------------------------------------------------
(* Bounds of the model *)

\* the incomes drawn are multiples of Grid ...
Grid == 25000
\* ... from 0 up to MaxIncomeK * Grid for the regime functions on their own,
MaxIncomeK == 104
\* and up to MaxTypedK * Grid for what the user types or slides to
MaxTypedK == 40

(* Program constants *)
Exemption == 75000
BracketSize == 100000
Step == 50000
InitialIncome == 1500000
\* float('inf'): exceeds every amount the model draws
inf == 2000000000

Rupees(n) == n * 100

Max(a, b) == IF a >= b THEN a ELSE b
Min(a, b) == IF a <= b THEN a ELSE b

\* a Python value of the income argument: None, or a number
None == <<>>
Num(n) == <<n>>
IsNone(v) == v = None
Val(v) == v[1]

Incomes == {k * Grid : k \in 0..MaxIncomeK}
MaxTyped == MaxTypedK * Grid
TypedIncomes == {k * Grid : k \in 0..MaxTypedK}
NegativeIncomes == {-Grid, -1}
PresetValues == {500000, 1000000, 1500000, 2000000, 2500000, 3000000}
SliderValues == {k * Step : k \in 0..(MaxTyped \div Step)}

-----------------------------------------------------------------------------
(* Tax calculation functions *)

slabs_2024_25 ==
    << <<300000, 0>>, <<700000, 5>>, <<1000000, 10>>, <<1200000, 15>>,
       <<1500000, 20>>, <<inf, 30>> >>

slabs_2025_26 ==
    << <<400000, 0>>, <<800000, 5>>, <<1200000, 10>>, <<1600000, 15>>,
       <<2000000, 20>>, <<2400000, 25>>, <<inf, 30>> >>

\* SlabStep with the slab entered when income >= prev_slab
SlabStep_Geq(income, slab, rate, st) ==
    IF income >= st.prev_slab
    THEN LET slab_amount == Min(income, slab) - st.prev_slab
             slab_tax == slab_amount * rate
         IN  [tax |-> st.tax + slab_tax,
              prev_slab |-> slab,
              breakdown |-> Append(st.breakdown,
                  [SlabRange |-> <<st.prev_slab, slab>>,
                   TaxableAmount |-> slab_amount,
                   Rate |-> rate,
                   Tax |-> slab_tax])]
    ELSE st

\* SlabStep with tax = slab_tax in place of tax += slab_tax
SlabStep_Assign(income, slab, rate, st) ==
    IF income > st.prev_slab
    THEN LET slab_amount == Min(income, slab) - st.prev_slab
             slab_tax == slab_amount * rate
         IN  [tax |-> slab_tax,
              prev_slab |-> slab,
              breakdown |-> Append(st.breakdown,
                  [SlabRange |-> <<st.prev_slab, slab>>,
                   TaxableAmount |-> slab_amount,
                   Rate |-> rate,
                   Tax |-> slab_tax])]
    ELSE st

\* one pass of the body of the for loop of calculate_tax, on the loop's
\* locals st = [tax, prev_slab, breakdown]
SlabStep(income, slab, rate, st) ==
    IF income > st.prev_slab
    THEN LET slab_amount == Min(income, slab) - st.prev_slab
             slab_tax == slab_amount * rate
         IN  [tax |-> st.tax + slab_tax,
              prev_slab |-> slab,
              breakdown |-> Append(st.breakdown,
                  [SlabRange |-> <<st.prev_slab, slab>>,
                   TaxableAmount |-> slab_amount,
                   Rate |-> rate,
                   Tax |-> slab_tax])]
    ELSE st

RECURSIVE TaxLoop(_, _, _, _)
TaxLoop(income, slabs, i, st) ==
    IF i > Len(slabs) THEN st
    ELSE TaxLoop(income, slabs, i + 1,
                 SlabStep(income, slabs[i][1], slabs[i][2], st))

\* calculate_tax(income, slabs): returns (tax, DataFrame(breakdown))
calculate_tax(income, slabs) ==
    LET st == TaxLoop(income, slabs, 1,
                      [tax |-> 0, prev_slab |-> 0, breakdown |-> <<>>])
    IN  [tax |-> st.tax, breakdown |-> st.breakdown]

\* calculate_new_regime_2024_25 without the deduction of 75,000
calculate_new_regime_2024_25_NoDeduction(income) ==
    calculate_tax(Max(income, 0), slabs_2024_25)

calculate_new_regime_2024_25(income) ==
    LET taxable_income == Max(income - Exemption, 0)
    IN  calculate_tax(taxable_income, slabs_2024_25)

calculate_new_regime_2025_26(income) ==
    LET taxable_income == Max(income - Exemption, 0)
    IN  calculate_tax(taxable_income, slabs_2025_26)

-----------------------------------------------------------------------------
(* Helper functions *)

\* x / d rounded to the nearest integer, ties to even (x >= 0, d > 0)
RoundDiv(x, d) ==
    LET q == x \div d
        r == x % d
    IN  IF 2 * r > d \/ (2 * r = d /\ q % 2 = 1) THEN q + 1 ELSE q

\* format_indian(number), number given in hundredths of a rupee: the suffix
\* and the digits printed before it (whole rupees, or hundredths of a lakh /
\* of a crore); the locale's grouping marks are left out
format_indian(number) ==
    IF number < Rupees(100000)
    THEN [suffix |-> "", digits |-> RoundDiv(number, 100)]
    ELSE IF number < Rupees(10000000)
    THEN [suffix |-> "L", digits |-> RoundDiv(number, 100000)]
    ELSE [suffix |-> "Cr", digits |-> RoundDiv(number, 10000000)]

\* range(start, stop, step) for step > 0, as the sequence it iterates over
Range(start, stop, step) ==
    LET n == IF stop <= start THEN 0 ELSE (stop - start + step - 1) \div step
    IN  [i \in 1..n |-> start + (i - 1) * step]

RECURSIVE SumColumn(_, _)
SumColumn(df, col) ==
    IF df = <<>> THEN 0
    ELSE (IF col = "Tax" THEN Head(df).Tax ELSE Head(df).TaxableAmount)
         + SumColumn(Tail(df), col)

-----------------------------------------------------------------------------
(* tax_calculator *)

ErrorMessage == "Error: Invalid income input!"
SwitchText == "Switch to 2025-26 Regime"
StickText == "Stick to 2024-25 Regime"

\* Compare with the savings taken as new_tax - old_tax
Compare_Swapped(income) ==
    LET old == calculate_new_regime_2024_25(income)
        new == calculate_new_regime_2025_26(income)
    IN  [old_tax |-> old.tax, old_df |-> old.breakdown,
         new_tax |-> new.tax, new_df |-> new.breakdown,
         savings |-> new.tax - old.tax]

\* lines 165-167: both regimes at one income, and the savings
Compare(income) ==
    LET old == calculate_new_regime_2024_25(income)
        new == calculate_new_regime_2025_26(income)
    IN  [old_tax |-> old.tax, old_df |-> old.breakdown,
         new_tax |-> new.tax, new_df |-> new.breakdown,
         savings |-> old.tax - new.tax]

\* InvalidIncome without the test for a negative income
InvalidIncome_NoneOnly(income) == IsNone(income)

\* the condition of the early return of tax_calculator
InvalidIncome(income) == IsNone(income) \/ Val(income) < 0

\* the tuple returned on the invalid-income path
InvalidReturn == <<ErrorMessage>> \o [i \in 1..8 |-> "gr.update()"]

\* the conditional expression inside recommendation_bar
Recommendation(savings) == IF savings > 0 THEN SwitchText ELSE StickText

\* the f-string field {savings/old_tax*100:.1f}: evaluating savings/old_tax
\* with old_tax = 0 raises ZeroDivisionError; otherwise the quotient is kept
\* as the fraction it prints
DivisionRaises(savings, old_tax) == old_tax = 0
Percent(savings, old_tax) == <<savings, old_tax>>

\* the int() of line 193 on the incomes of the model, which are integers
IntOf(income) == income

\* lines 193-203: one row per 1 lakh bracket
BracketSavings(income) ==
    LET income_brackets == Range(0, IntOf(income) + BracketSize, BracketSize)
    IN  [i \in 1..Len(income_brackets) |->
            LET bracket == income_brackets[i]
                c == Compare(bracket)
            IN  [IncomeBracket |-> <<bracket, bracket + BracketSize>>,
                 Tax2024_25 |-> c.old_tax,
                 Tax2025_26 |-> c.new_tax,
                 Savings |-> c.old_tax - c.new_tax]]

\* lines 207-208: the 'Grand Total' row added to a breakdown table
WithGrandTotal(df) ==
    Append(df, [SlabRange |-> "Grand Total",
                TaxableAmount |-> SumColumn(df, "TaxableAmount"),
                Rate |-> "NaN",
                Tax |-> SumColumn(df, "Tax")])

\* the functions a call of tax_calculator runs before it returns or raises
CalledInvalid == {}
CalledToBar == {"calculate_new_regime_2024_25", "calculate_new_regime_2025_26",
                "calculate_tax", "format_indian"}
CalledAll == CalledToBar \cup {"create_comparison_chart", "bracket_sweep",
                               "create_savings_chart"}

\* tax_calculator(income): how the call ends (a returned tuple or a raised
\* exception), with the functions it ran
tax_calculator(income) ==
    IF InvalidIncome(income)
    THEN [handler |-> "tax_calculator", income |-> income, kind |-> "return",
          value |-> InvalidReturn, called |-> CalledInvalid]
    ELSE
      LET c == Compare(Val(income))
      IN  IF DivisionRaises(c.savings, c.old_tax)
          THEN [handler |-> "tax_calculator", income |-> income, kind |-> "raise",
                value |-> <<"ZeroDivisionError">>, called |-> CalledToBar]
          ELSE
            LET recommendation_bar ==
                    [recommendation |-> Recommendation(c.savings),
                     savings |-> format_indian(c.savings),
                     percent |-> Percent(c.savings, c.old_tax)]
                final_comparison ==
                    [old_tax |-> format_indian(c.old_tax),
                     new_tax |-> format_indian(c.new_tax),
                     savings |-> format_indian(c.savings),
                     percent |-> Percent(c.savings, c.old_tax)]
                comparison_chart ==
                    [old_tax |-> c.old_tax, new_tax |-> c.new_tax,
                     savings |-> c.savings]
                bracket_savings_df == BracketSavings(Val(income))
                old_table == WithGrandTotal(c.old_df)
                new_table == WithGrandTotal(c.new_df)
                savings_chart == bracket_savings_df
            IN  [handler |-> "tax_calculator", income |-> income, kind |-> "return",
                 value |-> <<recommendation_bar, final_comparison, old_table,
                             new_table, comparison_chart, bracket_savings_df,
                             savings_chart>>,
                 called |-> CalledAll]

\* the outputs= list of calculate_btn.click and of reset_btn.click
OutputComponents ==
    <<"recommendation_bar", "final_comparison", "old_table", "new_table",
      "comparison_chart", "savings_table", "savings_chart">>

\* the lambda of reset_btn.click
ResetReturn ==
    <<"", "", "", "", "gr.update(visible=False)", "", "gr.update(visible=False)">>

-----------------------------------------------------------------------------
(* The Gradio session: the handlers wired in the layout *)

NoResult ==
    [handler |-> "none", income |-> None, kind |-> "none", value |-> <<>>,
     called |-> {}]
Pending == [done |-> FALSE]

Init ==
    /\ income_input = Num(InitialIncome)
    /\ result = NoResult
    /\ in1 = 0 /\ in2 = 0
    /\ r1 = Pending /\ r2 = Pending

\* the user edits the gr.Number field (any number, or clears it)
TypeIncome ==
    /\ \E v \in {None} \cup {Num(n) : n \in TypedIncomes \cup NegativeIncomes} :
           income_input' = v
    /\ UNCHANGED <<result, in1, in2, r1, r2>>

\* one of the sample-value buttons: lambda v=value: v -> income_input
PresetClick ==
    /\ \E v \in PresetValues : income_input' = Num(v)
    /\ UNCHANGED <<result, in1, in2, r1, r2>>

\* income_slider.change: lambda x: x -> income_input
SliderChange ==
    /\ \E x \in SliderValues : income_input' = Num(x)
    /\ UNCHANGED <<result, in1, in2, r1, r2>>

\* calculate_btn.click(tax_calculator, inputs=income_input, ...)
CalculateClick ==
    /\ result' = tax_calculator(income_input)
    /\ UNCHANGED <<income_input, in1, in2, r1, r2>>

\* reset_btn.click
ResetClick ==
    /\ result' = [handler |-> "reset", income |-> None, kind |-> "return",
                  value |-> ResetReturn, called |-> {}]
    /\ UNCHANGED <<income_input, in1, in2, r1, r2>>

Next ==
    \/ TypeIncome
    \/ PresetClick
    \/ SliderChange
    \/ CalculateClick
    \/ ResetClick

Spec == Init /\ [][Next]_vars

-----------------------------------------------------------------------------
(* The regime functions on their own: two incomes, each compared once *)

InitTax ==
    /\ income_input = Num(InitialIncome)
    /\ result = NoResult
    /\ in1 \in Incomes /\ in2 \in Incomes
    /\ r1 = Pending /\ r2 = Pending

Evaluated(income) == [done |-> TRUE, c |-> Compare(income)]

EvalFirst ==
    /\ r1 = Pending
    /\ r1' = Evaluated(in1)
    /\ UNCHANGED <<income_input, result, in1, in2, r2>>

EvalSecond ==
    /\ r2 = Pending
    /\ r2' = Evaluated(in2)
    /\ UNCHANGED <<income_input, result, in1, in2, r1>>

NextTax ==
    \/ EvalFirst
    \/ EvalSecond

SpecTax == InitTax /\ [][NextTax]_vars

-----------------------------------------------------------------------------
(* Properties of the regime functions (checked under SpecTax) *)

\* the reference progressive tax of the claims: the sum over the slabs
\* (lower, upper, rate) of rate * max(min(taxable, upper) - lower, 0)
RECURSIVE RefSum(_, _, _)
RefSum(taxable, slabs, i) ==
    IF i > Len(slabs) THEN 0
    ELSE LET lower == IF i = 1 THEN 0 ELSE slabs[i - 1][1]
             upper == slabs[i][1]
             rate == slabs[i][2]
         IN  rate * Max(Min(taxable, upper) - lower, 0)
             + RefSum(taxable, slabs, i + 1)

RefTax(income, slabs) == RefSum(Max(income - 75000, 0), slabs, 1)

\* C3 as claimed: for income = 0 and either regime the total tax is 0 and
\* the breakdown has exactly one line, the first (zero-rate) slab, with
\* taxable amount 0.
C3_ZeroIncomeOneLine ==
    (r1.done /\ in1 = 0) =>
        /\ r1.c.old_tax = 0 /\ r1.c.new_tax = 0
        /\ Len(r1.c.old_df) = 1 /\ Len(r1.c.new_df) = 1
        /\ r1.c.old_df[1].TaxableAmount = 0 /\ r1.c.old_df[1].Rate = 0
        /\ r1.c.new_df[1].TaxableAmount = 0 /\ r1.c.new_df[1].Rate = 0

\* C3 as amended: for income = 0 and either regime the total tax is 0 and
\* the breakdown is empty: no slab is entered, the zero-rate slab neither.
C3_ZeroIncomeEmptyBreakdown ==
    (r1.done /\ in1 = 0) =>
        /\ r1.c.old_tax = 0 /\ r1.c.new_tax = 0
        /\ r1.c.old_df = <<>> /\ r1.c.new_df = <<>>

C3_Witness == r1.done /\ in1 = 0

\* C4: for every income >= 0 and either slab table, the 'Tax' values of the
\* breakdown sum to the total tax of the same call, and the total is >= 0.
C4_BreakdownSumsToTotal ==
    r1.done =>
        /\ SumColumn(r1.c.old_df, "Tax") = r1.c.old_tax
        /\ SumColumn(r1.c.new_df, "Tax") = r1.c.new_tax
        /\ r1.c.old_tax >= 0 /\ r1.c.new_tax >= 0

C4_Witness ==
    r1.done /\ Len(r1.c.old_df) = Len(slabs_2024_25) /\ Len(r1.c.new_df) >= 5

\* C5: for every income >= 0 and each regime the total tax is the reference
\* progressive tax; at income 1,500,000 it is 125,000 under 2024-25 and
\* 93,750 under 2025-26.
C5_TotalIsReferenceTax ==
    r1.done =>
        /\ r1.c.old_tax = RefTax(in1, slabs_2024_25)
        /\ r1.c.new_tax = RefTax(in1, slabs_2025_26)
        /\ in1 = 1500000 =>
              r1.c.old_tax = Rupees(125000) /\ r1.c.new_tax = Rupees(93750)

C5_Witness == r1.done /\ in1 = 1500000

\* C6: for incomes 0 <= I1 < I2 and the same regime, the total tax at I1 is
\* at most the total tax at I2.
C6_Monotone ==
    (r1.done /\ r2.done /\ in1 < in2) =>
        /\ r1.c.old_tax <= r2.c.old_tax
        /\ r1.c.new_tax <= r2.c.new_tax

C6_Witness ==
    /\ r1.done /\ r2.done /\ in1 < in2
    /\ r1.c.old_tax < r2.c.old_tax /\ r1.c.new_tax < r2.c.new_tax

\* C9: for every income >= 0 the 2025-26 tax never exceeds the 2024-25 tax
\* (savings >= 0); savings is 0 exactly when income - 75,000 <= 300,000, is
\* non-decreasing in income, and is 110,000 whenever income - 75,000 is at
\* least 2,400,000.
C9_SavingsShape ==
    r1.done =>
        /\ r1.c.new_tax <= r1.c.old_tax
        /\ r1.c.savings >= 0
        /\ (r1.c.savings = 0) <=> (in1 - 75000 <= 300000)
        /\ (in1 - 75000 >= 2400000) => r1.c.savings = Rupees(110000)
        /\ (r2.done /\ in1 < in2) => r1.c.savings <= r2.c.savings

C9_Witness ==
    /\ r1.done /\ r2.done
    /\ in1 - 75000 = 300000 /\ r1.c.savings = 0
    /\ in2 - 75000 >= 2400000 /\ r2.c.savings = Rupees(110000)

-----------------------------------------------------------------------------
(* Properties of tax_calculator (checked under Spec) *)

\* the call that produced result was tax_calculator on an income >= 0
ValidCall == result.handler = "tax_calculator" /\ ~IsNone(result.income)
                /\ Val(result.income) >= 0

\* C1: for every income >= 0 at which the 2024-25 total tax is 0, the call
\* of tax_calculator completes and returns its outputs; no division by zero
\* is raised.
C1_ZeroTaxIsHandled ==
    (ValidCall /\ calculate_new_regime_2024_25(Val(result.income)).tax = 0)
        => result.kind = "return"

\* C2: when the income is None or negative, tax_calculator runs neither
\* regime function nor the sweep, returns no computed tax result, and the
\* first element it returns is the invalid-income message.
C2_InvalidIncomeShortCircuits ==
    (result.handler = "tax_calculator"
        /\ (IsNone(result.income) \/ Val(result.income) < 0)) =>
        /\ result.kind = "return"
        /\ result.called = {}
        /\ result.value[1] = ErrorMessage
        /\ \A i \in 2..Len(result.value) : result.value[i] = "gr.update()"

C2_Witness ==
    /\ result.handler = "tax_calculator"
    /\ ~IsNone(result.income) /\ Val(result.income) < 0
    /\ result.value[1] = ErrorMessage

\* C7: for every income >= 0 tax_calculator produces a recommendation: the
\* 2025-26 regime iff savings = taxA - taxB > 0, else (ties included) the
\* 2024-25 regime; at income 1,500,000 savings are 31,250 and it is 2025-26.
C7_RecommendationForEveryIncome ==
    ValidCall =>
        LET c == Compare(Val(result.income))
        IN  /\ result.kind = "return"
            /\ result.value[1].recommendation =
                  (IF c.old_tax - c.new_tax > 0 THEN SwitchText ELSE StickText)
            /\ Val(result.income) = 1500000 =>
                  /\ c.savings = Rupees(31250)
                  /\ result.value[1].recommendation = SwitchText

\* whenever tax_calculator does return for an income >= 0, its recommendation
\* is the one C7 states
RecommendationWhenReturned ==
    (ValidCall /\ result.kind = "return") =>
        LET c == Compare(Val(result.income))
        IN  result.value[1].recommendation =
                (IF c.old_tax - c.new_tax > 0 THEN SwitchText ELSE StickText)

\* the number of boundaries 0, BracketSize, ... up to and including the first
\* one >= income
Boundaries(income) == (income + BracketSize - 1) \div BracketSize + 1

\* the sweep has one point per boundary, in increasing order, with both
\* regimes' taxes at the boundary and their difference
SweepIsExact(sweep, income) ==
    /\ Len(sweep) = Boundaries(income)
    /\ \A i \in 1..Len(sweep) :
          LET b == (i - 1) * BracketSize
          IN  /\ sweep[i].IncomeBracket[1] = b
              /\ sweep[i].Tax2024_25 = calculate_new_regime_2024_25(b).tax
              /\ sweep[i].Tax2025_26 = calculate_new_regime_2025_26(b).tax
              /\ sweep[i].Savings = sweep[i].Tax2024_25 - sweep[i].Tax2025_26
    /\ income = 250000 => Len(sweep) = 4

\* C8: for every income >= 0 the bracket sweep of tax_calculator has exactly
\* one point per boundary 0, 100,000, ... up to and including the first
\* boundary >= income, in increasing order, each with the two regimes' taxes
\* at that boundary and their difference; 4 points for income 250,000.
C8_SweepForEveryIncome ==
    ValidCall =>
        /\ result.kind = "return"
        /\ SweepIsExact(result.value[6], Val(result.income))

\* whenever tax_calculator does return for an income >= 0, its sweep is the
\* one C8 states
SweepWhenReturned ==
    (ValidCall /\ result.kind = "return") =>
        SweepIsExact(result.value[6], Val(result.income))

\* C10: on every return path of tax_calculator the returned tuple has as many
\* elements as there are output components wired to the Calculate button (7).
C10_ReturnMatchesOutputs ==
    (result.handler = "tax_calculator" /\ result.kind = "return") =>
        /\ Len(OutputComponents) = 7
        /\ Len(result.value) = Len(OutputComponents)

====
